---- MODULE Spec2Model ----
(***************************************************************************)
(* gps-tracker (src/main.rs): a Rocket service with two routes,            *)
(*   PUT /loc  update_location   and   GET /loc  query_location,           *)
(* both guarded by the request guard User::from_request (x-api-key), both  *)
(* reading the MongoDB collection gps.locations through last_location.     *)
(*                                                                         *)
(* Three specifications:                                                   *)
(*   Spec        the request handlers running concurrently over the store; *)
(*   SpecSerial  the same handlers, one request at a time;                 *)
(*   SpecAuth    the pure function User::from_request applied to a bounded *)
(*               set of x-api-key header lists.                            *)
(***************************************************************************)
EXTENDS Integers, Sequences, FiniteSets, TLC

VARIABLES
    store,       \* the collection gps.locations, in insertion (natural) order
    clock,       \* the last reading of SystemTime::now(), in milliseconds
    pc,          \* per worker: where it stands in the handler, or "idle"
    user,        \* per worker: Option<User> produced by the request guard
    location,    \* per worker: Option<Location>, the JSON body of a PUT
    last_loc,    \* per worker: Option<TimestampLocation>, line 93
    update,      \* per worker: Option<document>, the doc! of lines 97-102
    out,         \* the response the last step sent, if it sent one
    baseline,    \* history: Option<_id> of the document last_location read
    seen,        \* history: Len(store) when last_location read it
    first_initial, \* history: per user, Len(store) just after the first
                 \* update answered Initial; 0 while none has
    keys,        \* SpecAuth: the values of the x-api-key header
    outcome      \* SpecAuth: Option<request::Outcome<User, UserError>>

vars == <<store, clock, pc, user, location, last_loc, update,
          out, baseline, seen, keys, outcome, first_initial>>

(***************************************************************************)
(* Bounds of the model.                                                    *)
(***************************************************************************)
\* requests being handled at the same time (Rocket's worker threads)
Workers == 2
\* documents the collection holds at most
MaxDocs == 3
\* documents already in the collection when the service starts
MaxSeed == 1
\* last millisecond of the system clock
MaxClock == 1
\* x-api-key header values in one request
MaxKeys == 2
\* characters in one x-api-key value
MaxKeyLen == 3

(***************************************************************************)
(* Program constants.                                                      *)
(***************************************************************************)
\* validate: key == 111
ValidKey == 111
\* prev_loc.distance(&new_loc) / 1000.0
MetersPerKm == 1000

None == <<>>
Some(x) == <<x>>

(***************************************************************************)
(* Credential resolver: str::parse::<u64>, validate, User::from_request.   *)
(* Strings are sequences of one-character strings.                         *)
(***************************************************************************)
Digits == <<"0", "1", "2", "3", "4", "5", "6", "7", "8", "9">>

IsDigit(c) == \E i \in 1..Len(Digits) : Digits[i] = c

DigitVal(c) == (CHOOSE i \in 1..Len(Digits) : Digits[i] = c) - 1

RECURSIVE FromDigits(_, _)
\* <u64 as FromStr>: accumulate base 10, any other character is an error.
\* (The checked_mul/checked_add overflow error needs 20 digits; MaxKeyLen
\* keeps every value far below u64::MAX.)
FromDigits(digits, acc) ==
    IF digits = <<>> THEN [ok |-> TRUE, val |-> acc]
    ELSE IF ~IsDigit(Head(digits)) THEN [ok |-> FALSE, val |-> 0]
    ELSE FromDigits(Tail(digits), acc * 10 + DigitVal(Head(digits)))

\* keys[0].parse() at type u64: empty is an error, one leading '+' is
\* accepted, '-' is not a sign for an unsigned type, no trimming.
parse(src) ==
    IF src = <<>> THEN [ok |-> FALSE, val |-> 0]
    ELSE LET digits == IF Head(src) = "+" THEN Tail(src) ELSE src
         IN  IF digits = <<>> THEN [ok |-> FALSE, val |-> 0]
             ELSE FromDigits(digits, 0)

validate(key) == key = ValidKey

\* The variants of enum UserError (the payload of Malformed, the boxed
\* ParseIntError, is not kept).
UserError == {"Missing", "NotFound", "Malformed", "Invalid"}

Failure(status, error) == [tag |-> "Failure", status |-> status, error |-> error]

Success(u) == [tag |-> "Success", user |-> u]

\* A plausible slip: the arms of the inner match exchanged.
from_request_swapped_arms(ks) ==
    IF Len(ks) = 0 THEN Failure("BadRequest", "Missing")
    ELSE IF Len(ks) = 1
    THEN LET p == parse(ks[1])
         IN  IF ~p.ok THEN Failure("BadRequest", "Invalid")
             ELSE IF validate(p.val) THEN Success([id |-> p.val])
             ELSE Failure("BadRequest", "Malformed")
    ELSE Failure("BadRequest", "Invalid")

\* A plausible slip: the guard keeps validate's verdict and drops the id.
from_request_unvalidated(ks) ==
    IF Len(ks) = 0 THEN Failure("BadRequest", "Missing")
    ELSE IF Len(ks) = 1
    THEN LET p == parse(ks[1])
         IN  IF ~p.ok THEN Failure("BadRequest", "Malformed")
             ELSE IF p.val <= ValidKey THEN Success([id |-> p.val])
             ELSE Failure("BadRequest", "Invalid")
    ELSE Failure("BadRequest", "Invalid")

\* impl FromRequest for User, lines 42-54.
from_request(ks) ==
    IF Len(ks) = 0 THEN Failure("BadRequest", "Missing")
    ELSE IF Len(ks) = 1
    THEN LET p == parse(ks[1])
         IN  IF ~p.ok THEN Failure("BadRequest", "Malformed")
             ELSE IF validate(p.val) THEN Success([id |-> p.val])
             ELSE Failure("BadRequest", "Invalid")
    ELSE Failure("BadRequest", "Invalid")

(***************************************************************************)
(* Data: Location (f32 degrees), BSON documents, TimestampLocation.        *)
(***************************************************************************)
Req == 1..Workers

\* The bodies a client sends: Location { lng, lat } in whole degrees, within
\* the range WGS84::new accepts.
Locs == {[lng |-> -73, lat |-> 40], [lng |-> -72, lat |-> 41]}

\* From<f32> for Bson: Bson::FloatingPoint(a as f64). A double is the f32 it
\* widens plus the mantissa bits an f32 cannot hold.
ToF64(x) == [f32 |-> x, low |-> 0]

\* item.get_f64(..) as f32: the narrowing cast drops the low mantissa bits.
AsF32(d) == d.f32

\* DateTime::to_rfc3339 of a stored datetime: seconds and fraction.
to_rfc3339(ms) == [secs |-> ms \div 1000, frac |-> ms % 1000]

\* The document of lines 97-102.
Doc(uid, ms, loc) ==
    [uid |-> uid, timestamp |-> ms,
     lng |-> ToF64(loc.lng), lat |-> ToF64(loc.lat)]

\* A document as the collection holds it, under its _id.
Stored(id, d) ==
    [_id |-> id, uid |-> d.uid, timestamp |-> d.timestamp,
     lng |-> d.lng, lat |-> d.lat]

\* What earlier runs of the service may have left in the collection: a fix
\* of the valid user at any time, and a fix of another user elsewhere
\* (before the placeholder validate, or through another deployment).
SeedFixes ==
    {[uid |-> ValidKey, timestamp |-> ms, loc |-> [lng |-> -73, lat |-> 40]] :
        ms \in 0..MaxClock}
    \cup {[uid |-> 222, timestamp |-> MaxClock, loc |-> [lng |-> -72, lat |-> 41]]}

RECURSIVE SeedStores(_)
\* The collections of n such documents, in any insertion order; seeded _ids
\* are -1, -2, ...
SeedStores(n) ==
    IF n = 0 THEN {<<>>}
    ELSE {Append(s, Stored(-n, Doc(f.uid, f.timestamp, f.loc))) :
            s \in SeedStores(n - 1), f \in SeedFixes}

(***************************************************************************)
(* Location store gateway: find with FindOptions, cursor, insert_one.      *)
(***************************************************************************)
RemoveAt(s, i) == [j \in 1..(Len(s) - 1) |-> IF j < i THEN s[j] ELSE s[j + 1]]

RECURSIVE Sorted(_, _)
\* The orders a sort on { "timestamp": dir } may return (dir = -1 is
\* descending); documents with equal timestamps come in any order.
Sorted(s, dir) ==
    IF s = <<>> THEN {<<>>}
    ELSE UNION {
           {<<s[i]>> \o t : t \in Sorted(RemoveAt(s, i), dir)} :
             i \in {k \in 1..Len(s) :
                      \A j \in 1..Len(s) :
                          dir * s[k].timestamp <= dir * s[j].timestamp}}

Take(s, n) == IF Len(s) <= n THEN s ELSE SubSeq(s, 1, n)

\* A plausible slip: ascending sort, the oldest document first.
last_loc_opts_ascending == [sort |-> 1, limit |-> 1]

\* fn last_loc_opts, lines 117-122.
last_loc_opts == [sort |-> -1, limit |-> 1]

\* A plausible slip: the filter document left out (find(None, ..)).
find_unfiltered(coll, uid, opts) ==
    {Take(t, opts.limit) : t \in Sorted(coll, opts.sort)}

\* coll.find(Some(doc!{ "uid": user.id }), Some(opts)): the cursors the
\* store may return.
find(coll, uid, opts) ==
    {Take(t, opts.limit) :
        t \in Sorted(SelectSeq(coll, LAMBDA d : d.uid = uid), opts.sort)}

\* A plausible slip: the cursor read after it was drained.
cursor_next_drained(cursor) == None

\* cursor.next(): Option<document>.
cursor_next(cursor) == IF cursor = <<>> THEN None ELSE Some(cursor[1])

\* The closure of lines 131-142: document -> TimestampLocation.
ToTimestampLocation(item) ==
    [timestamp |-> to_rfc3339(item.timestamp),
     location |-> [lng |-> AsF32(item.lng), lat |-> AsF32(item.lat)]]

\* fn last_location, lines 124-143, when find and the cursor succeed: the
\* documents cursor.next() may yield (the handler maps the closure over it).
last_location(coll, u) ==
    {cursor_next(c) : c \in find(coll, u.id, last_loc_opts)}

\* The ObjectId the driver gives a document inserted without _id: fresh.
\* Documents inserted by this run are numbered 1, 2, ...
ObjectId(coll) == Cardinality({i \in 1..Len(coll) : coll[i]._id > 0}) + 1

\* A plausible slip: a unique index on (uid, timestamp), under which the
\* second of two documents of one user and one millisecond is not stored.
insert_one_unique(coll, d) ==
    IF \E i \in 1..Len(coll) :
          coll[i].uid = d.uid /\ coll[i].timestamp = d.timestamp
    THEN coll
    ELSE Append(coll, Stored(ObjectId(coll), d))

\* A plausible slip: an upsert keyed by uid instead of an insert.
insert_one_upsert(coll, d) ==
    IF \E i \in 1..Len(coll) : coll[i].uid = d.uid
    THEN [i \in 1..Len(coll) |->
            IF coll[i].uid = d.uid THEN Stored(coll[i]._id, d) ELSE coll[i]]
    ELSE Append(coll, Stored(ObjectId(coll), d))

\* coll.insert_one(update, None) when it succeeds.
insert_one(coll, d) == Append(coll, Stored(ObjectId(coll), d))

(***************************************************************************)
(* Distance engine and the responses.                                      *)
(***************************************************************************)
Abs(x) == IF x < 0 THEN -x ELSE x

\* WGS84::new(lat, lng, 0.0)
WGS84(lat, lng) == [latitude |-> lat, longitude |-> lng, altitude |-> 0]

\* WGS84::distance of the google_geocoding crate, in meters, abstracted to
\* whole degrees at 111 km per degree.
distance(a, b) ==
    111000 * (Abs(a.latitude - b.latitude) + Abs(a.longitude - b.longitude))
      + Abs(a.altitude - b.altitude)

Kilometers(x) == [km |-> x]

Initial == [tag |-> "Initial"]

DistTraveled(k) == [tag |-> "DistTraveled", dist |-> k]

Missing == [tag |-> "Missing"]

Location(tl) == [tag |-> "Location", ts_loc |-> tl]

NoResponse == [tag |-> "NoResponse"]

\* The handler panicked in an expect: it returns no response, its thread
\* unwinds and the connection ends without an answer of the service.
Closed == [tag |-> "Closed"]

\* Whoever sent a request the guard rejected.
NoUser == [id |-> 0]

\* The response the request of user u is answered with.
Sent(u, response) == [to |-> u.id, body |-> response]

\* The step sends nothing.
Quiet == Sent(NoUser, NoResponse)

\* A plausible slip: the distance taken from the new location to itself.
update_response_self(last, loc) ==
    IF last = None THEN Initial
    ELSE LET new_loc == WGS84(loc.lat, loc.lng)
         IN  DistTraveled(Kilometers(distance(new_loc, new_loc) \div MetersPerKm))

\* The match of lines 106-114.
update_response(last, loc) ==
    IF last = None THEN Initial
    ELSE LET prev_loc == WGS84(last[1].location.lat, last[1].location.lng)
             new_loc == WGS84(loc.lat, loc.lng)
         IN  DistTraveled(Kilometers(distance(prev_loc, new_loc) \div MetersPerKm))

\* The match of lines 147-156.
query_response(last) ==
    IF last = None THEN Missing ELSE Location(last[1])

(***************************************************************************)
(* The service: each request on a worker thread, no locking of its own.     *)
(***************************************************************************)
\* Between the read of its handler and its response or panic.
Running(q) == pc[q] \in {"build", "insert_one"}

UserDocs(coll, uid) == SelectSeq(coll, LAMBDA d : d.uid = uid)

\* The x-api-key header lists requests to the handlers carry: no header, the
\* valid key, a well-formed key that is not valid, a value that is no number,
\* the header twice.
RequestKeys ==
    {<<>>, <<<<"1", "1", "1">>>>, <<<<"1", "1">>>>, <<<<"+">>>>,
     <<<<"1", "1", "1">>, <<"1", "1", "1">>>>}

\* The routes a new request may take: a PUT only while the collection and
\* the updates under way stay within MaxDocs.
Routable ==
    {"GET"} \cup
    {m \in {"PUT"} :
        Len(store) + Cardinality({q \in Req : Running(q)}) < MaxDocs}

\* What the request guard makes of the header lists requests carry.
Guarded == {from_request(ks) : ks \in RequestKeys}

\* The ids of the users the guard resolves from those header lists.
Users == {o.user.id : o \in {g \in Guarded : g.tag = "Success"}}

\* first_initial once the update of user u has been answered with response
\* and the collection has become coll.
NoteInitial(u, response, coll) ==
    IF response = Initial /\ first_initial[u.id] = 0
    THEN [first_initial EXCEPT ![u.id] = Len(coll)]
    ELSE first_initial

Init ==
    /\ store \in UNION {SeedStores(n) : n \in 0..MaxSeed}
    /\ clock = 0
    /\ pc = [r \in Req |-> "idle"]
    /\ user = [r \in Req |-> None]
    /\ location = [r \in Req |-> None]
    /\ last_loc = [r \in Req |-> None]
    /\ update = [r \in Req |-> None]
    /\ out = Quiet
    /\ baseline = [r \in Req |-> None]
    /\ seen = [r \in Req |-> 0]
    /\ first_initial = [u \in Users |-> 0]
    /\ keys = <<>>
    /\ outcome = None

\* Rocket gives a request to worker r, the first idle one, which runs the
\* request guard and the handler up to its first operation on the store.
Idle(r) ==
    /\ pc[r] = "idle"
    /\ \A q \in Req : q < r => pc[q] # "idle"

\* A plausible slip: the guard taken as Option<User>, so that a failure still
\* reaches the handler, here query_location for nobody.
Reject_forwarding(r) ==
    /\ Idle(r)
    /\ \E o \in Guarded :
         /\ o.tag = "Failure"
         /\ \E item \in last_location(store, NoUser) :
              out' = Sent(NoUser,
                          query_response(IF item = None THEN None
                                         ELSE Some(ToTimestampLocation(item[1]))))
    /\ UNCHANGED <<store, clock, pc, user, location, last_loc, update,
                   baseline, seen, keys, outcome, first_initial>>

\* The request guard returns Failure((status, _)): no handler is called, the
\* status is the answer.
Reject(r) ==
    /\ Idle(r)
    /\ \E o \in Guarded :
         /\ o.tag = "Failure"
         /\ out' = Sent(NoUser, [tag |-> "Error", status |-> o.status])
    /\ UNCHANGED <<store, clock, pc, user, location, last_loc, update,
                   baseline, seen, keys, outcome, first_initial>>

\* PUT /loc: the guard returns Success(user), the body is the location, and
\* update_location, line 93: let last_loc = last_location(&*db_client, &user).
update_location_read(r) ==
    /\ Idle(r)
    /\ "PUT" \in Routable
    /\ \E o \in Guarded, loc \in Locs :
         /\ o.tag = "Success"
         /\ user' = [user EXCEPT ![r] = Some(o.user)]
         /\ location' = [location EXCEPT ![r] = Some(loc)]
         /\ \E item \in last_location(store, o.user) :
              /\ last_loc' = [last_loc EXCEPT
                    ![r] = IF item = None THEN None
                           ELSE Some(ToTimestampLocation(item[1]))]
              /\ baseline' = [baseline EXCEPT
                    ![r] = IF item = None THEN None ELSE Some(item[1]._id)]
    /\ seen' = [seen EXCEPT ![r] = Len(store)]
    /\ pc' = [pc EXCEPT ![r] = "build"]
    /\ out' = Quiet
    /\ UNCHANGED <<store, clock, update, keys, outcome, first_initial>>

\* A plausible slip: the document built without the user's id.
update_location_doc_anonymous(r) ==
    /\ pc[r] = "build"
    /\ \E now \in clock..MaxClock :
         /\ clock' = now
         /\ update' = [update EXCEPT
               ![r] = Some(Doc(NoUser.id, now, location[r][1]))]
    /\ pc' = [pc EXCEPT ![r] = "insert_one"]
    /\ out' = Quiet
    /\ UNCHANGED <<store, user, location, last_loc, baseline, seen,
                   keys, outcome, first_initial>>

\* A plausible slip: the timestamp taken from the request (any time), not
\* from the server's clock.
update_location_doc_client_time(r) ==
    /\ pc[r] = "build"
    /\ \E now \in 0..MaxClock :
         /\ clock' = clock
         /\ update' = [update EXCEPT
               ![r] = Some(Doc(user[r][1].id, now, location[r][1]))]
    /\ pc' = [pc EXCEPT ![r] = "insert_one"]
    /\ out' = Quiet
    /\ UNCHANGED <<store, user, location, last_loc, baseline, seen,
                   keys, outcome, first_initial>>

\* update_location, lines 96-102: the document is built; its timestamp is
\* SystemTime::now() read here, kept by BSON in whole milliseconds, so two
\* readings within one millisecond are equal.
update_location_doc(r) ==
    /\ pc[r] = "build"
    /\ \E now \in clock..MaxClock :
         /\ clock' = now
         /\ update' = [update EXCEPT
               ![r] = Some(Doc(user[r][1].id, now, location[r][1]))]
    /\ pc' = [pc EXCEPT ![r] = "insert_one"]
    /\ out' = Quiet
    /\ UNCHANGED <<store, user, location, last_loc, baseline, seen,
                   keys, outcome, first_initial>>

\* A plausible slip: the previous location read after the insert.
update_location_insert_then_read(r) ==
    /\ pc[r] = "insert_one"
    /\ store' = insert_one(store, update[r][1])
    /\ \E item \in last_location(store', user[r][1]) :
         out' = Sent(user[r][1],
                     update_response(IF item = None THEN None
                                     ELSE Some(ToTimestampLocation(item[1])),
                                     location[r][1]))
    /\ pc' = [pc EXCEPT ![r] = "idle"]
    /\ user' = [user EXCEPT ![r] = None]
    /\ location' = [location EXCEPT ![r] = None]
    /\ last_loc' = [last_loc EXCEPT ![r] = None]
    /\ update' = [update EXCEPT ![r] = None]
    /\ baseline' = [baseline EXCEPT ![r] = None]
    /\ seen' = [seen EXCEPT ![r] = 0]
    /\ first_initial' = NoteInitial(user[r][1], out'.body, store')
    /\ UNCHANGED <<clock, keys, outcome>>

\* update_location, lines 103-114: insert_one succeeds, then the response is
\* computed from last_loc and the body (no shared state is touched again)
\* and the request's locals are dropped.
update_location_insert(r) ==
    /\ pc[r] = "insert_one"
    /\ store' = insert_one(store, update[r][1])
    /\ out' = Sent(user[r][1], update_response(last_loc[r], location[r][1]))
    /\ pc' = [pc EXCEPT ![r] = "idle"]
    /\ user' = [user EXCEPT ![r] = None]
    /\ location' = [location EXCEPT ![r] = None]
    /\ last_loc' = [last_loc EXCEPT ![r] = None]
    /\ update' = [update EXCEPT ![r] = None]
    /\ baseline' = [baseline EXCEPT ![r] = None]
    /\ seen' = [seen EXCEPT ![r] = 0]
    /\ first_initial' = NoteInitial(user[r][1], out'.body, store')
    /\ UNCHANGED <<clock, keys, outcome>>

\* A plausible slip: the query consumes what it reads (find_one_and_delete).
query_location_consuming(r) ==
    /\ Idle(r)
    /\ "GET" \in Routable
    /\ \E o \in Guarded :
         /\ o.tag = "Success"
         /\ \E item \in last_location(store, o.user) :
              /\ out' = Sent(o.user,
                             query_response(IF item = None THEN None
                                            ELSE Some(ToTimestampLocation(item[1]))))
              /\ store' = IF item = None THEN store
                          ELSE SelectSeq(store, LAMBDA d : d._id # item[1]._id)
    /\ UNCHANGED <<clock, pc, user, location, last_loc, update, baseline,
                   seen, keys, outcome, first_initial>>

\* GET /loc: the guard returns Success(user), and query_location, lines
\* 146-157: one last_location, then the response. The handler's only
\* operation on shared state is that read, so the request is one step.
query_location(r) ==
    /\ Idle(r)
    /\ "GET" \in Routable
    /\ \E o \in Guarded :
         /\ o.tag = "Success"
         /\ \E item \in last_location(store, o.user) :
              out' = Sent(o.user,
                          query_response(IF item = None THEN None
                                         ELSE Some(ToTimestampLocation(item[1]))))
    /\ UNCHANGED <<store, clock, pc, user, location, last_loc, update,
                   baseline, seen, keys, outcome, first_initial>>

\* A plausible slip: the read's failure taken for "no record"
\* (.ok().flatten()), so that the update goes on as a first one.
find_failed_defaulted(r) ==
    /\ Idle(r)
    /\ "PUT" \in Routable
    /\ \E o \in Guarded, loc \in Locs :
         /\ o.tag = "Success"
         /\ user' = [user EXCEPT ![r] = Some(o.user)]
         /\ location' = [location EXCEPT ![r] = Some(loc)]
    /\ last_loc' = [last_loc EXCEPT ![r] = None]
    /\ baseline' = [baseline EXCEPT ![r] = None]
    /\ seen' = [seen EXCEPT ![r] = Len(store)]
    /\ pc' = [pc EXCEPT ![r] = "build"]
    /\ out' = Quiet
    /\ UNCHANGED <<store, clock, update, keys, outcome, first_initial>>

\* last_location, lines 126-132, called by either handler: find or the
\* cursor returns Err and expect panics; the handler returns nothing and the
\* connection is closed.
find_failed(r) ==
    /\ Idle(r)
    /\ \E o \in Guarded :
         /\ o.tag = "Success"
         /\ out' = Sent(o.user, Closed)
    /\ UNCHANGED <<store, clock, pc, user, location, last_loc, update,
                   baseline, seen, keys, outcome, first_initial>>

\* A plausible slip: the insert's result dropped (.ok()) instead of unwrapped,
\* so that the handler goes on to its response.
insert_failed_swallowed(r) ==
    /\ pc[r] = "insert_one"
    /\ out' = Sent(user[r][1], update_response(last_loc[r], location[r][1]))
    /\ pc' = [pc EXCEPT ![r] = "idle"]
    /\ user' = [user EXCEPT ![r] = None]
    /\ location' = [location EXCEPT ![r] = None]
    /\ last_loc' = [last_loc EXCEPT ![r] = None]
    /\ update' = [update EXCEPT ![r] = None]
    /\ baseline' = [baseline EXCEPT ![r] = None]
    /\ seen' = [seen EXCEPT ![r] = 0]
    /\ UNCHANGED <<store, clock, keys, outcome, first_initial>>

\* update_location, line 103: insert_one returns Err and expect panics;
\* nothing was written.
insert_failed(r) ==
    /\ pc[r] = "insert_one"
    /\ out' = Sent(user[r][1], Closed)
    /\ pc' = [pc EXCEPT ![r] = "idle"]
    /\ user' = [user EXCEPT ![r] = None]
    /\ location' = [location EXCEPT ![r] = None]
    /\ last_loc' = [last_loc EXCEPT ![r] = None]
    /\ update' = [update EXCEPT ![r] = None]
    /\ baseline' = [baseline EXCEPT ![r] = None]
    /\ seen' = [seen EXCEPT ![r] = 0]
    /\ UNCHANGED <<store, clock, keys, outcome, first_initial>>

Next ==
    \/ \E r \in Req : Reject(r)
    \/ \E r \in Req : update_location_read(r)
    \/ \E r \in Req : update_location_doc(r)
    \/ \E r \in Req : update_location_insert(r)
    \/ \E r \in Req : query_location(r)
    \/ \E r \in Req : find_failed(r)
    \/ \E r \in Req : insert_failed(r)

Spec == Init /\ [][Next]_vars

(***************************************************************************)
(* SpecSerial: the same service when no two requests overlap: a request is *)
(* taken up only when no handler is running.                               *)
(***************************************************************************)
NoneRunning == \A q \in Req : ~Running(q)

NextSerial ==
    \/ \E r \in Req : NoneRunning /\ Reject(r)
    \/ \E r \in Req : NoneRunning /\ update_location_read(r)
    \/ \E r \in Req : update_location_doc(r)
    \/ \E r \in Req : update_location_insert(r)
    \/ \E r \in Req : NoneRunning /\ query_location(r)
    \/ \E r \in Req : NoneRunning /\ find_failed(r)
    \/ \E r \in Req : insert_failed(r)

SpecSerial == Init /\ [][NextSerial]_vars

(***************************************************************************)
(* SpecAuth: User::from_request on every bounded header list.              *)
(***************************************************************************)
KeyChars == {"0", "1", "+", "-"}

RECURSIVE Strings(_)
Strings(n) ==
    IF n = 0 THEN {<<>>}
    ELSE LET shorter == Strings(n - 1)
         IN  shorter \cup {Append(w, c) : w \in shorter, c \in KeyChars}

\* What a repeated header repeats: the valid key, or a value that is no key.
RepeatedValues == {<<"1", "1", "1">>, <<"-">>}

RECURSIVE Repeats(_)
Repeats(n) ==
    IF n = 0 THEN {<<>>}
    ELSE LET fewer == Repeats(n - 1)
         IN  fewer \cup {Append(w, v) : w \in fewer, v \in RepeatedValues}

\* request.headers().get("x-api-key").collect(): no value, or a first value
\* followed by up to MaxKeys - 1 more.
KeyLists ==
    {<<>>} \cup
    {<<k>> \o more : k \in Strings(MaxKeyLen), more \in Repeats(MaxKeys - 1)}

InitAuth ==
    /\ store = <<>>
    /\ clock = 0
    /\ pc = [r \in Req |-> "idle"]
    /\ user = [r \in Req |-> None]
    /\ location = [r \in Req |-> None]
    /\ last_loc = [r \in Req |-> None]
    /\ update = [r \in Req |-> None]
    /\ out = Quiet
    /\ baseline = [r \in Req |-> None]
    /\ seen = [r \in Req |-> 0]
    /\ first_initial = [u \in Users |-> 0]
    /\ keys \in KeyLists
    /\ outcome = None

\* The request guard is applied to the header values.
Resolve ==
    /\ outcome = None
    /\ outcome' = Some(from_request(keys))
    /\ UNCHANGED <<store, clock, pc, user, location, last_loc, update,
                   out, baseline, seen, keys, first_initial>>

NextAuth == Resolve

SpecAuth == InitAuth /\ [][NextAuth]_vars

(***************************************************************************)
(* Properties.                                                             *)
(***************************************************************************)
\* Worker r's update_location returns its response in this step.
UpdateResponds(r) ==
    /\ pc[r] = "insert_one"
    /\ pc'[r] = "idle"
    /\ out'.body # Closed

\* A query_location returns its response in this step.
QueryResponds == out'.body.tag \in {"Location", "Missing"}

AllIdle == \A r \in Req : pc[r] = "idle"

\* The documents of worker r's user that the collection held when r's
\* update read it.
DocsSeen(r) == UserDocs(SubSeq(store, 1, seen[r]), user[r][1].id)

\* No insert_one took effect since worker r's update read the collection;
\* true of every update that overlaps no other request.
Undisturbed(r) == Len(store) = seen[r]

DocById(coll, id) == coll[CHOOSE i \in 1..Len(coll) : coll[i]._id = id]

\* Kilometers from the stored document d to the location loc.
KmBetween(d, loc) ==
    distance(WGS84(AsF32(d.lat), AsF32(d.lng)), WGS84(loc.lat, loc.lng))
        \div MetersPerKm

\* C1: when an update responds, the document its last_location read was in
\* the collection before this update's insert, it is not the document this
\* update inserts, and the response is computed from it (Initial if the read
\* found none).
C1_ReadBeforeInsert ==
    [][\A r \in Req : UpdateResponds(r) =>
          /\ Len(store') = Len(store) + 1
          /\ \A i \in 1..Len(store) : store[i]._id # store'[Len(store')]._id
          /\ IF baseline[r] = None
             THEN out'.body = Initial
             ELSE /\ \E i \in 1..Len(store) : store[i]._id = baseline[r][1]
                  /\ baseline[r][1] # store'[Len(store')]._id
                  /\ out'.body = DistTraveled(Kilometers(
                        KmBetween(DocById(store, baseline[r][1]),
                                  location[r][1])))]_vars

\* An update has just answered DistTraveled, its baseline and its own
\* document both in the collection.
C1_Witness == out.body.tag = "DistTraveled" /\ Len(store) >= 2

\* C2: an update for a user who had no document when the update read the
\* collection, with no other request's insert taking effect before its own
\* (so in particular an update that overlaps no other request), answers
\* Initial and leaves exactly one document of that user, holding the body's
\* latitude and longitude.
C2_FirstUpdateInitial ==
    [][\A r \in Req :
          (/\ UpdateResponds(r)
           /\ Undisturbed(r)
           /\ DocsSeen(r) = <<>>)
          => /\ out'.body = Initial
             /\ LET docs == UserDocs(store', user[r][1].id)
                IN  /\ Len(docs) = 1
                    /\ docs[1].lat = ToF64(location[r][1].lat)
                    /\ docs[1].lng = ToF64(location[r][1].lng)]_vars

\* An update has just answered Initial and the valid user has one document.
C2_Witness ==
    /\ out.body = Initial
    /\ AllIdle
    /\ Len(UserDocs(store, ValidKey)) = 1

\* C3 as stated: an update for a user who had exactly one document p when
\* the update read the collection answers DistTraveled(distance(p, loc)) and
\* leaves exactly two documents of that user.
C3_Original ==
    [][\A r \in Req :
          (/\ UpdateResponds(r)
           /\ Len(DocsSeen(r)) = 1)
          => /\ out'.body = DistTraveled(Kilometers(
                   KmBetween(DocsSeen(r)[1], location[r][1])))
             /\ Len(UserDocs(store', user[r][1].id)) = 2]_vars

\* C3 amended: the same for an update with no other request's insert taking
\* effect between its read and its own insert (so in particular an update
\* that overlaps no other request).
C3_OnePriorDistance ==
    [][\A r \in Req :
          (/\ UpdateResponds(r)
           /\ Undisturbed(r)
           /\ Len(DocsSeen(r)) = 1)
          => /\ out'.body = DistTraveled(Kilometers(
                   KmBetween(DocsSeen(r)[1], location[r][1])))
             /\ Len(UserDocs(store', user[r][1].id)) = 2]_vars

\* An update has just answered a distance that is not zero and the valid
\* user has two documents.
C3_Witness ==
    /\ out.body.tag = "DistTraveled"
    /\ out.body.dist.km > 0
    /\ AllIdle
    /\ Len(UserDocs(store, ValidKey)) = 2

\* C4: a query answers Missing when the user has no document, and otherwise
\* Location of a document of the user whose timestamp no other document of
\* the user exceeds, wherever it stands in the insertion order.
C4_QueryLatest ==
    [][QueryResponds =>
          LET docs == UserDocs(store, out'.to)
          IN  IF docs = <<>>
              THEN out'.body = Missing
              ELSE \E i \in 1..Len(docs) :
                     /\ \A j \in 1..Len(docs) :
                           docs[j].timestamp <= docs[i].timestamp
                     /\ out'.body = Location(ToTimestampLocation(docs[i]))]_vars

\* A query has just answered the valid user's newest document, which was
\* inserted before an older one.
C4_Witness ==
    /\ out.body.tag = "Location"
    /\ \E i, j \in 1..Len(store) :
         /\ i < j
         /\ store[i].uid = out.to
         /\ store[j].uid = out.to
         /\ store[i].timestamp > store[j].timestamp
         /\ out.body = Location(ToTimestampLocation(store[i]))

\* C5 as stated, where no two requests overlap: when all documents of the
\* user come from updates of this run, a query answers the document inserted
\* last, and its timestamp is later than that of every earlier one.
C5_Original ==
    [][QueryResponds =>
          LET docs == UserDocs(store, out'.to)
              n == Len(docs)
          IN  (n > 0 /\ \A i \in 1..n : docs[i]._id > 0)
              => /\ out'.body = Location(ToTimestampLocation(docs[n]))
                 /\ \A j \in 1..(n - 1) :
                       docs[j].timestamp < docs[n].timestamp]_vars

\* C6: every step keeps every document of the collection, unchanged and in
\* place; the collection only grows at its end.
C6_AppendOnly ==
    [][/\ Len(store') >= Len(store)
       /\ \A i \in 1..Len(store) : store'[i] = store[i]]_vars

\* A document of an earlier run is still there after an update of this run
\* inserted its own.
C6_Witness ==
    /\ Len(store) >= 2
    /\ store[1]._id < 0
    /\ store[Len(store)]._id > 0

\* C7: the step in which a query answers Location or Missing leaves the
\* collection as it was.
C7_QueryReadOnly ==
    [][QueryResponds => store' = store]_vars

\* A query has just answered with documents in the collection.
C7_Witness ==
    /\ out.body.tag \in {"Location", "Missing"}
    /\ Len(store) >= 1

\* C8: the guard returns Success exactly when one header value is given, it
\* parses as an unsigned integer and validate accepts the integer; the User
\* then carries that integer.
C8_ResolveIff ==
    outcome # None =>
        /\ outcome[1].tag = "Success"
             <=> (/\ Len(keys) = 1
                  /\ parse(keys[1]).ok
                  /\ validate(parse(keys[1]).val))
        /\ outcome[1].tag = "Success"
             => outcome[1].user.id = parse(keys[1]).val

\* The guard has returned Success.
C8_Witness == outcome # None /\ outcome[1].tag = "Success"

\* C9 as stated: with more than one header value the guard fails with an
\* error kind of its own, none of those of the other conditions.
C9_Original ==
    (outcome # None /\ Len(keys) > 1) =>
        /\ outcome[1].tag = "Failure"
        /\ outcome[1].error \notin {"Missing", "Malformed", "Invalid"}

\* C10: with no header value the guard fails with Missing; with one value
\* that does not parse, with Malformed; with one that parses and validate
\* rejects, with Invalid; each with status 400.
C10_ErrorKinds ==
    (outcome # None /\ Len(keys) <= 1) =>
        /\ Len(keys) = 0 => outcome[1] = Failure("BadRequest", "Missing")
        /\ (Len(keys) = 1 /\ ~parse(keys[1]).ok)
             => outcome[1] = Failure("BadRequest", "Malformed")
        /\ (Len(keys) = 1 /\ parse(keys[1]).ok /\ ~validate(parse(keys[1]).val))
             => outcome[1] = Failure("BadRequest", "Invalid")

\* The guard has returned Malformed for a single value.
C10_Witness ==
    /\ outcome # None
    /\ Len(keys) = 1
    /\ outcome[1].tag = "Failure"
    /\ outcome[1].error = "Malformed"

\* A request for which the guard resolved no user is answered in this step.
RejectResponds == out'.to = NoUser.id /\ out'.body # NoResponse

\* The users the guard resolves from the header lists requests carry.
Resolved == {o.user : o \in {g \in Guarded : g.tag = "Success"}}

\* C11: a request whose guard fails is answered with status BadRequest (400)
\* and nothing else happens: the collection and every handler's position and
\* locals are as before. A handler starts, and a handler's response or panic
\* goes out, only for a user the guard resolved.
C11_RejectedNoEffect ==
    [][/\ RejectResponds =>
            /\ out'.body = [tag |-> "Error", status |-> "BadRequest"]
            /\ store' = store
            /\ UNCHANGED <<pc, user, location, last_loc, update, clock>>
       /\ \A r \in Req :
            (pc[r] = "idle" /\ pc'[r] # "idle") => user'[r][1] \in Resolved
       /\ out'.body.tag \in {"Initial", "DistTraveled", "Location", "Missing",
                             "Closed"}
            => [id |-> out'.to] \in Resolved]_vars

\* A request has just been rejected while an update was under way and the
\* collection held a document.
C11_Witness ==
    /\ out.body = [tag |-> "Error", status |-> "BadRequest"]
    /\ Len(store) >= 1
    /\ \E r \in Req : pc[r] = "insert_one"

\* Worker r's insert_one fails in this step: the update ends and nothing was
\* written.
InsertFails(r) ==
    /\ pc[r] = "insert_one"
    /\ pc'[r] = "idle"
    /\ store' = store

\* C12 as stated: a request whose insert_one fails is answered with a server
\* error (500), and no request, whichever store operation failed in it, ends
\* without a response.
C12_Original ==
    [][/\ \A r \in Req : InsertFails(r) =>
            out'.body = [tag |-> "Error", status |-> "InternalServerError"]
       /\ out'.body # Closed]_vars

\* C13: a step that answers Initial or DistTraveled is the step in which the
\* answering update's insert_one put exactly its one document into the
\* collection; an update whose insert_one fails answers neither; and a step
\* that answers Location or Missing answers what last_location found in the
\* collection for that user.
C13_NoSuccessAfterFailure ==
    [][/\ out'.body.tag \in {"Initial", "DistTraveled"} =>
            \E r \in Req :
                /\ pc[r] = "insert_one"
                /\ pc'[r] = "idle"
                /\ out'.to = user[r][1].id
                /\ Len(store') = Len(store) + 1
                /\ SubSeq(store', 1, Len(store)) = store
                /\ store'[Len(store')] =
                      Stored(store'[Len(store')]._id, update[r][1])
       /\ \A r \in Req : InsertFails(r) =>
            out'.body.tag \notin {"Initial", "DistTraveled", "Location", "Missing"}
       /\ out'.body.tag \in {"Location", "Missing"} =>
            \E item \in last_location(store, [id |-> out'.to]) :
                out'.body = query_response(IF item = None THEN None
                                           ELSE Some(ToTimestampLocation(item[1])))]_vars

\* An update has just answered and the document it inserted is the last of
\* the collection.
C13_Witness ==
    /\ out.body.tag \in {"Initial", "DistTraveled"}
    /\ Len(store) >= 1
    /\ store[Len(store)]._id > 0
    /\ store[Len(store)].uid = out.to

\* C14: an update goes on past its read only with what last_location
\* returned from the collection (None only when the user has no document
\* there), a request that ends in a failed read leaves the collection and
\* every handler where they were, and an update whose read returned None
\* answers Initial once its insert_one has added its document.
C14_ReadFailureOrNone ==
    [][/\ \A r \in Req :
            (pc[r] = "idle" /\ pc'[r] = "build") =>
                \E item \in last_location(store, user'[r][1]) :
                    last_loc'[r] = IF item = None THEN None
                                   ELSE Some(ToTimestampLocation(item[1]))
       /\ (out'.body = Closed /\ pc' = pc) =>
            /\ store' = store
            /\ UNCHANGED <<user, location, last_loc, update>>
       /\ \A r \in Req :
            (UpdateResponds(r) /\ last_loc[r] = None) =>
                /\ out'.body = Initial
                /\ Len(store') = Len(store) + 1]_vars

\* An update whose read returned None has inserted the first document of the
\* collection and answered Initial.
C14_Witness ==
    /\ out.body = Initial
    /\ Len(store) = 1
    /\ store[1]._id > 0

\* C15: the documents of the collection have distinct _ids, and under every
\* interleaving each update whose insert_one succeeds adds exactly one
\* document, with a fresh _id, the uid of its user and the coordinates of its
\* body, behind all the others, which stay as they were; no other step
\* changes the collection.
C15_ConcurrentInsertsIntact ==
    /\ \A i, j \in 1..Len(store) : i # j => store[i]._id # store[j]._id
    /\ [][/\ \A r \in Req : UpdateResponds(r) =>
               /\ Len(store') = Len(store) + 1
               /\ SubSeq(store', 1, Len(store)) = store
               /\ \A i \in 1..Len(store) :
                     store[i]._id # store'[Len(store')]._id
               /\ store'[Len(store')].uid = user[r][1].id
               /\ store'[Len(store')].lat = ToF64(location[r][1].lat)
               /\ store'[Len(store')].lng = ToF64(location[r][1].lng)
          /\ (\A r \in Req : ~UpdateResponds(r)) => store' = store]_vars

\* An update has just inserted and answered while another update of the same
\* user, which read the collection before that insert, is about to insert.
C15_Witness ==
    /\ out.body.tag \in {"Initial", "DistTraveled"}
    /\ \E r \in Req :
         /\ pc[r] = "insert_one"
         /\ user[r][1].id = out.to
         /\ Len(store) > seen[r]

(***************************************************************************)
(* C18.  For each user, once some update has returned Initial, every other *)
(* update of that user returns DistTraveled: at most one update ever       *)
(* returns Initial, whatever the interleaving.                             *)
(* Fails: two overlapping first updates both read an empty trail (line 93) *)
(* before either inserts (line 103), and both answer Initial.              *)
(***************************************************************************)
C18_Original ==
    [][\A r \in Req :
         (UpdateResponds(r) /\ first_initial[user[r][1].id] > 0)
            => out'.body.tag = "DistTraveled"]_vars

\* C18, amended.  For each user, once some update has returned Initial,
\* every update of that user that reads the store after that response
\* returns DistTraveled (an update that read before it may return Initial
\* too).
C18_InitialThenDistance ==
    [][\A r \in Req :
         (/\ UpdateResponds(r)
          /\ first_initial[user[r][1].id] > 0
          /\ seen[r] >= first_initial[user[r][1].id])
            => out'.body.tag = "DistTraveled"]_vars

\* An update that read after the first Initial has answered DistTraveled.
C18_Witness ==
    /\ out.body.tag = "DistTraveled"
    /\ out.to \in Users
    /\ first_initial[out.to] > 0
    /\ Len(store) > first_initial[out.to]
    /\ store[Len(store)].uid = out.to

(***************************************************************************)
(* C19.  Records are bound to the authenticated identity: the record an    *)
(* update inserts carries the id of the user the guard resolved for that   *)
(* request, the record an update takes as its baseline is a stored record  *)
(* of that user, and the record a query returns is a stored record of the  *)
(* user it answers; a user whose only records are another user's gets      *)
(* Missing.                                                                *)
(***************************************************************************)
C19_BoundToIdentity ==
    [][/\ \A r \in Req :
            /\ (pc[r] = "idle" /\ pc'[r] = "build") =>
                  /\ user'[r][1] \in Resolved
                  /\ baseline'[r] # None =>
                        /\ \E i \in 1..Len(store) : store[i]._id = baseline'[r][1]
                        /\ DocById(store, baseline'[r][1]).uid = user'[r][1].id
                        /\ last_loc'[r] =
                             Some(ToTimestampLocation(DocById(store, baseline'[r][1])))
            /\ UpdateResponds(r) =>
                  /\ Len(store') = Len(store) + 1
                  /\ store'[Len(store')].uid = user[r][1].id
                  /\ out'.to = user[r][1].id
       /\ QueryResponds =>
            /\ [id |-> out'.to] \in Resolved
            /\ out'.body.tag = "Location" =>
                  \E i \in 1..Len(store) :
                     /\ store[i].uid = out'.to
                     /\ out'.body.ts_loc = ToTimestampLocation(store[i])
            /\ out'.body.tag = "Missing" => UserDocs(store, out'.to) = <<>>]_vars

\* An update of the valid user has inserted its record and answered the
\* distance from its baseline while the newest record of the collection, by
\* timestamp, is another user's.
C19_Witness ==
    /\ out.body.tag = "DistTraveled"
    /\ out.to = ValidKey
    /\ store[Len(store)]._id > 0
    /\ store[Len(store)].uid = ValidKey
    /\ \E i \in 1..Len(store) :
         /\ store[i].uid # ValidKey
         /\ \A j \in 1..Len(store) : store[j].timestamp <= store[i].timestamp

====
